---- MODULE Spec2Model ----
(***************************************************************************)
(* daily_sync/sync_xingxiu_data.py: fetch one day of equipment telemetry   *)
(* from the ai_export endpoint and upsert it into the xingxiu table.       *)
(*                                                                         *)
(* Text is a sequence of one-character strings, so that str.strip,         *)
(* str.replace, strptime and float() are computed character by character.  *)
(* A Python value is a record tagged by its type in field t.               *)
(***************************************************************************)
EXTENDS Integers, Sequences, FiniteSets, Bags, TLC

VARIABLES
    call,          \* pure-function harness: the function applied and its arguments
    ret,           \* pure-function harness: what the call returned or raised
    pc,            \* per process: position of the run inside the script
    argv,          \* per process: sys.argv[1:]
    DATE_STR,      \* per process: module global DATE_STR (line 42)
    fetched,       \* per process: the dateStr parameters of the requests it POSTed
    raw,           \* per process: the list fetch_api returned
    mapped,        \* per process: the list main hands to upsert
    idx,           \* per process: rows of the batch executemany has applied
    conns,         \* per process: connections get_conn has opened in this run
    exitCode,      \* per process: exit status of the finished run
    runs,          \* per process: invocations so far
    tableAtStart,  \* per process: rows of the table when the run started
    held,          \* per process: keys whose row locks the open transaction holds
    undo,          \* per process: undo log of the open transaction (key -> rows before)
    table,         \* rows of `xingxiu` as a bag (the unique index is not built in)
    created        \* whether `xingxiu` exists

pureVars == <<call, ret>>
procVars == <<pc, argv, DATE_STR, fetched, raw, mapped, idx, conns, exitCode,
              runs, tableAtStart, held, undo>>
dbVars == <<table, created>>
vars == <<call, ret, pc, argv, DATE_STR, fetched, raw, mapped, idx, conns,
          exitCode, runs, tableAtStart, held, undo, table, created>>

----------------------------------------------------------------------------
(* Python values and exceptions *)

None == [t |-> "none"]
Str(s) == [t |-> "str", s |-> s]
PyInt(n) == [t |-> "int", n |-> n]
Bool(b) == [t |-> "bool", b |-> b]
\* a float holding m * 10^-k exactly, or one of the specials "inf", "-inf", "nan"
Float(m, k) == [t |-> "float", m |-> m, k |-> k]
FloatSpecial(name) == [t |-> "float", special |-> name]
List(l) == [t |-> "list", l |-> l]
Dict(d) == [t |-> "dict", d |-> d]

Ok(v) == [t |-> "ok", v |-> v]
Raise(e) == [t |-> "raise", exc |-> e]

\* bool(x)
Truthy(x) ==
    CASE x.t = "none" -> FALSE
      [] x.t = "str" -> x.s # <<>>
      [] x.t = "int" -> x.n # 0
      [] x.t = "bool" -> x.b
      [] x.t = "float" -> IF "special" \in DOMAIN x THEN TRUE ELSE x.m # 0
      [] x.t = "list" -> x.l # <<>>
      [] x.t = "dict" -> DOMAIN x.d # {}

\* a or b
PyOr(a, b) == IF Truthy(a) THEN a ELSE b

\* r.get(key)
Get(r, key) == IF key \in DOMAIN r.d THEN r.d[key] ELSE None

----------------------------------------------------------------------------
(* Text *)

Digits == <<"0", "1", "2", "3", "4", "5", "6", "7", "8", "9">>
IsDigit(c) == \E i \in 1..10 : Digits[i] = c
DigitVal(c) == (CHOOSE i \in 1..10 : Digits[i] = c) - 1
IsSpace(c) == c \in {" ", "\t", "\n", "\r"}

AllDigits(s) == \A i \in 1..Len(s) : IsDigit(s[i])

RECURSIVE NatOf(_)
NatOf(s) == IF s = <<>> THEN 0
            ELSE 10 * NatOf(SubSeq(s, 1, Len(s) - 1)) + DigitVal(s[Len(s)])

RECURSIVE NatToChars(_)
NatToChars(n) == IF n < 10 THEN <<Digits[n + 1]>>
                 ELSE NatToChars(n \div 10) \o <<Digits[(n % 10) + 1]>>

RECURSIVE Pow10(_)
Pow10(k) == IF k = 0 THEN 1 ELSE 10 * Pow10(k - 1)

\* zero-padded decimal, as strftime's %m, %d, %H, %M, %S and (from year 1000) %Y
RECURSIVE Pad(_, _)
Pad(s, w) == IF Len(s) >= w THEN s ELSE Pad(<<"0">> \o s, w)

RECURSIVE LStrip(_)
LStrip(s) == IF s # <<>> /\ IsSpace(Head(s)) THEN LStrip(Tail(s)) ELSE s
RECURSIVE RStrip(_)
RStrip(s) == IF s # <<>> /\ IsSpace(s[Len(s)])
             THEN RStrip(SubSeq(s, 1, Len(s) - 1)) ELSE s
\* str.strip()
Strip(s) == RStrip(LStrip(s))

\* str.replace(c, rep) for a one-character c
RECURSIVE Replace(_, _, _)
Replace(s, c, rep) ==
    IF s = <<>> THEN <<>>
    ELSE (IF Head(s) = c THEN rep ELSE <<Head(s)>>) \o Replace(Tail(s), c, rep)

LowerMap ==
    [c \in {"A", "B", "C", "D", "E", "F", "G", "H", "I", "J", "K", "L", "M",
            "N", "O", "P", "Q", "R", "S", "T", "U", "V", "W", "X", "Y", "Z"} |->
        CASE c = "A" -> "a" [] c = "B" -> "b" [] c = "C" -> "c" [] c = "D" -> "d"
          [] c = "E" -> "e" [] c = "F" -> "f" [] c = "G" -> "g" [] c = "H" -> "h"
          [] c = "I" -> "i" [] c = "J" -> "j" [] c = "K" -> "k" [] c = "L" -> "l"
          [] c = "M" -> "m" [] c = "N" -> "n" [] c = "O" -> "o" [] c = "P" -> "p"
          [] c = "Q" -> "q" [] c = "R" -> "r" [] c = "S" -> "s" [] c = "T" -> "t"
          [] c = "U" -> "u" [] c = "V" -> "v" [] c = "W" -> "w" [] c = "X" -> "x"
          [] c = "Y" -> "y" [] c = "Z" -> "z"]
\* str.lower()
Lower(s) == [i \in 1..Len(s) |-> IF s[i] \in DOMAIN LowerMap THEN LowerMap[s[i]] ELSE s[i]]

\* repr of a float m * 10^-k
FloatRepr(x) ==
    IF "special" \in DOMAIN x
    THEN (CASE x.special = "inf" -> <<"i", "n", "f">>
            [] x.special = "-inf" -> <<"-", "i", "n", "f">>
            [] x.special = "nan" -> <<"n", "a", "n">>)
    ELSE LET a == IF x.m < 0 THEN -x.m ELSE x.m
             whole == NatToChars(a \div Pow10(x.k))
             frac == IF x.k = 0 THEN <<"0">>
                     ELSE Pad(NatToChars(a % Pow10(x.k)), x.k)
         IN (IF x.m < 0 THEN <<"-">> ELSE <<>>) \o whole \o <<".">> \o frac

\* str(x) of a scalar
PyStr(x) ==
    CASE x.t = "none" -> <<"N", "o", "n", "e">>
      [] x.t = "str" -> x.s
      [] x.t = "bool" -> IF x.b THEN <<"T", "r", "u", "e">>
                         ELSE <<"F", "a", "l", "s", "e">>
      [] x.t = "int" -> IF x.n < 0 THEN <<"-">> \o NatToChars(-x.n)
                        ELSE NatToChars(x.n)
      [] x.t = "float" -> FloatRepr(x)

----------------------------------------------------------------------------
(* float() and int() *)

\* m * 10^-k without trailing zeros in the fraction
RECURSIVE Normal(_, _)
Normal(m, k) == IF k > 0 /\ m % 10 = 0 THEN Normal(m \div 10, k - 1) ELSE Float(m, k)

IndexOf(s, c) == IF \E i \in 1..Len(s) : s[i] = c
                 THEN CHOOSE i \in 1..Len(s) : s[i] = c /\ \A j \in 1..(i - 1) : s[j] # c
                 ELSE 0

\* the digits of a float literal: whole and frac around the point
FloatOfParts(neg, low, whole, frac) ==
    IF low \in {<<"i", "n", "f">>, <<"i", "n", "f", "i", "n", "i", "t", "y">>}
    THEN Ok(FloatSpecial(IF neg THEN "-inf" ELSE "inf"))
    ELSE IF low = <<"n", "a", "n">> THEN Ok(FloatSpecial("nan"))
    ELSE IF AllDigits(whole) /\ AllDigits(frac) /\ Len(whole) + Len(frac) > 0
    THEN Ok(Normal((IF neg THEN -1 ELSE 1) * NatOf(whole \o frac), Len(frac)))
    ELSE Raise("ValueError")

FloatOfBody(neg, body, dot) ==
    FloatOfParts(neg, Lower(body),
                 IF dot = 0 THEN body ELSE SubSeq(body, 1, dot - 1),
                 IF dot = 0 THEN <<>> ELSE SubSeq(body, dot + 1, Len(body)))

FloatOfSigned(neg, body) == FloatOfBody(neg, body, IndexOf(body, "."))

FloatOfStripped(s) ==
    FloatOfSigned(s # <<>> /\ Head(s) = "-",
                  IF s # <<>> /\ Head(s) \in {"-", "+"} THEN Tail(s) ELSE s)

\* float(text): optional sign, then digits with at most one point, or inf /
\* infinity / nan in any case, all between optional whitespace.  Exponents and
\* digit-group underscores are outside the grammar modelled here.
ParseFloat(text) == FloatOfStripped(Strip(text))

\* float(x)
PyFloat(x) ==
    CASE x.t = "str" -> ParseFloat(x.s)
      [] x.t = "int" -> Ok(Float(x.n, 0))
      [] x.t = "bool" -> Ok(Float(IF x.b THEN 1 ELSE 0, 0))
      [] x.t = "float" -> Ok(x)
      [] OTHER -> Raise("TypeError")

\* int(f) of a float: truncation toward zero
PyIntOfFloat(f) ==
    IF "special" \in DOMAIN f
    THEN Raise(IF f.special = "nan" THEN "ValueError" ELSE "OverflowError")
    ELSE Ok(PyInt(IF f.m < 0 THEN -((-f.m) \div Pow10(f.k)) ELSE f.m \div Pow10(f.k)))

\* the value of the first attempt that did not raise, else None
FirstOk(first, second) ==
    IF first.t = "ok" THEN first.v
    ELSE IF second.t = "ok" THEN second.v
    ELSE None

\* to_decimal, with text = str(x)
DecimalOf(x, text) ==
    IF x = None \/ Strip(text) = <<>> \/ Lower(text) = <<"n", "u", "l", "l">>
    THEN None
    ELSE FirstOk(ParseFloat(Replace(text, ",", <<>>)), PyFloat(x))

to_decimal(x) == DecimalOf(x, PyStr(x))

\* int(f) for the outcome f of float(): any exception gives None
IntOf(f) == IF f.t = "raise" THEN None ELSE FirstOk(PyIntOfFloat(f.v), Raise("ValueError"))

to_int(x) == IntOf(ParseFloat(Replace(PyStr(x), ",", <<>>)))

----------------------------------------------------------------------------
(* datetime.strptime, datetime.fromisoformat, strftime *)

\* The alternatives of each directive's regular expression, in the order the
\* regular expression tries them: len characters, all digits with a value in
\* lo..hi, or (sp) a space followed by one digit in lo..hi.
Alts(tok) ==
    CASE tok = "%Y" -> <<[len |-> 4, lo |-> 0, hi |-> 9999, sp |-> FALSE]>>
      [] tok = "%m" -> <<[len |-> 2, lo |-> 1, hi |-> 12, sp |-> FALSE],
                         [len |-> 1, lo |-> 1, hi |-> 9, sp |-> FALSE]>>
      [] tok = "%d" -> <<[len |-> 2, lo |-> 1, hi |-> 31, sp |-> FALSE],
                         [len |-> 1, lo |-> 1, hi |-> 9, sp |-> FALSE],
                         [len |-> 2, lo |-> 1, hi |-> 9, sp |-> TRUE]>>
      [] tok = "%H" -> <<[len |-> 2, lo |-> 0, hi |-> 23, sp |-> FALSE],
                         [len |-> 1, lo |-> 0, hi |-> 9, sp |-> FALSE]>>
      [] tok = "%M" -> <<[len |-> 2, lo |-> 0, hi |-> 59, sp |-> FALSE],
                         [len |-> 1, lo |-> 0, hi |-> 9, sp |-> FALSE]>>
      [] tok = "%S" -> <<[len |-> 2, lo |-> 0, hi |-> 61, sp |-> FALSE],
                         [len |-> 1, lo |-> 0, hi |-> 9, sp |-> FALSE]>>

IsDirective(tok) == tok \in {"%Y", "%m", "%d", "%H", "%M", "%S"}

AltMatches(a, s) ==
    /\ Len(s) >= a.len
    /\ IF a.sp
       THEN s[1] = " " /\ IsDigit(s[2]) /\ DigitVal(s[2]) \in a.lo..a.hi
       ELSE AllDigits(SubSeq(s, 1, a.len)) /\ NatOf(SubSeq(s, 1, a.len)) \in a.lo..a.hi

AltValue(a, s) == IF a.sp THEN DigitVal(s[2]) ELSE NatOf(SubSeq(s, 1, a.len))

NoMatch == [t |-> "nomatch"]
NoFields == [tok \in {} |-> 0]

\* Match text s against format fmt (a sequence of directives and literal
\* characters); the whole of s must be consumed ("unconverted data remains"
\* otherwise).  A space in the format matches one or more whitespace characters.
RECURSIVE MatchFrom(_, _, _), TryAlts(_, _, _, _)
MatchFrom(fmt, s, acc) ==
    IF fmt = <<>> THEN (IF s = <<>> THEN [t |-> "match", f |-> acc] ELSE NoMatch)
    ELSE IF IsDirective(Head(fmt)) THEN TryAlts(fmt, s, acc, Alts(Head(fmt)))
    ELSE IF Head(fmt) = " "
    THEN (IF s # <<>> /\ IsSpace(Head(s)) THEN MatchFrom(Tail(fmt), LStrip(s), acc)
          ELSE NoMatch)
    ELSE IF s # <<>> /\ Head(s) = Head(fmt) THEN MatchFrom(Tail(fmt), Tail(s), acc)
    ELSE NoMatch
TryAlts(fmt, s, acc, alts) ==
    IF alts = <<>> THEN NoMatch
    ELSE IF AltMatches(Head(alts), s)
            /\ MatchFrom(Tail(fmt), SubSeq(s, Head(alts).len + 1, Len(s)),
                         acc @@ (Head(fmt) :> AltValue(Head(alts), s))) # NoMatch
    THEN MatchFrom(Tail(fmt), SubSeq(s, Head(alts).len + 1, Len(s)),
                   acc @@ (Head(fmt) :> AltValue(Head(alts), s)))
    ELSE TryAlts(fmt, s, acc, Tail(alts))

IsLeap(y) == (y % 4 = 0 /\ y % 100 # 0) \/ y % 400 = 0
DaysInMonth(y, m) ==
    IF m = 2 THEN (IF IsLeap(y) THEN 29 ELSE 28)
    ELSE IF m \in {4, 6, 9, 11} THEN 30 ELSE 31

\* datetime(Y, m, d, H, M, S): ValueError outside the calendar
MakeDatetime(Y, m, d, H, M, S) ==
    IF Y >= 1 /\ m \in 1..12 /\ d \in 1..DaysInMonth(Y, m)
       /\ H \in 0..23 /\ M \in 0..59 /\ S \in 0..59
    THEN Ok([Y |-> Y, m |-> m, d |-> d, H |-> H, M |-> M, S |-> S])
    ELSE Raise("ValueError")

Field(f, tok) == IF tok \in DOMAIN f THEN f[tok] ELSE 0

DatetimeOfMatch(r) ==
    IF r = NoMatch THEN Raise("ValueError")
    ELSE MakeDatetime(Field(r.f, "%Y"), Field(r.f, "%m"), Field(r.f, "%d"),
                      Field(r.f, "%H"), Field(r.f, "%M"), Field(r.f, "%S"))

\* datetime.strptime(s, fmt)
Strptime(s, fmt) == DatetimeOfMatch(MatchFrom(fmt, s, NoFields))

\* YYYY-MM-DD at the head of s
IsoDateOk(s) ==
    /\ Len(s) >= 10
    /\ AllDigits(SubSeq(s, 1, 4)) /\ s[5] = "-"
    /\ AllDigits(SubSeq(s, 6, 7)) /\ s[8] = "-"
    /\ AllDigits(SubSeq(s, 9, 10))

\* +HH:MM or -HH:MM
IsoOffsetOk(tz) ==
    /\ AllDigits(SubSeq(tz, 2, 3)) /\ tz[4] = ":" /\ AllDigits(SubSeq(tz, 5, 6))
    /\ NatOf(SubSeq(tz, 2, 3)) < 24 /\ NatOf(SubSeq(tz, 5, 6)) < 60

\* HH, HH:MM or HH:MM:SS
IsoTimeOk(core) ==
    /\ Len(core) \in {2, 5, 8}
    /\ AllDigits(SubSeq(core, 1, 2))
    /\ Len(core) >= 5 => (core[3] = ":" /\ AllDigits(SubSeq(core, 4, 5)))
    /\ Len(core) >= 8 => (core[6] = ":" /\ AllDigits(SubSeq(core, 7, 8)))

IsoHasOffset(rest) == Len(rest) >= 8 /\ rest[Len(rest) - 5] \in {"+", "-"}

IsoDatetime(s, core) ==
    MakeDatetime(NatOf(SubSeq(s, 1, 4)), NatOf(SubSeq(s, 6, 7)), NatOf(SubSeq(s, 9, 10)),
                 NatOf(SubSeq(core, 1, 2)),
                 IF Len(core) >= 5 THEN NatOf(SubSeq(core, 4, 5)) ELSE 0,
                 IF Len(core) >= 8 THEN NatOf(SubSeq(core, 7, 8)) ELSE 0)

\* the part of s after the date and the separator character
IsoOfRest(s, rest) ==
    IF IsoHasOffset(rest)
    THEN (IF IsoOffsetOk(SubSeq(rest, Len(rest) - 5, Len(rest)))
             /\ IsoTimeOk(SubSeq(rest, 1, Len(rest) - 6))
          THEN IsoDatetime(s, SubSeq(rest, 1, Len(rest) - 6))
          ELSE Raise("ValueError"))
    ELSE IF IsoTimeOk(rest) THEN IsoDatetime(s, rest)
    ELSE Raise("ValueError")

\* datetime.fromisoformat(s), for the grammar every interpreter version that has
\* zoneinfo accepts: YYYY-MM-DD[*HH[:MM[:SS]]][+HH:MM], * any one character.
\* Fractional seconds and the further forms of later versions are not modelled.
FromIsoformat(s) ==
    IF ~IsoDateOk(s) THEN Raise("ValueError")
    ELSE IF Len(s) = 10 THEN IsoDatetime(s, <<"0", "0">>)
    ELSE IF Len(s) = 11 THEN Raise("ValueError")
    ELSE IsoOfRest(s, SubSeq(s, 12, Len(s)))

\* strftime("%Y-%m-%d") and strftime("%Y-%m-%d %H:%M:%S"), years from 1000 on
FormatDate(dt) ==
    Pad(NatToChars(dt.Y), 4) \o <<"-">> \o Pad(NatToChars(dt.m), 2)
        \o <<"-">> \o Pad(NatToChars(dt.d), 2)
FormatDatetime(dt) ==
    FormatDate(dt) \o <<" ">> \o Pad(NatToChars(dt.H), 2) \o <<":">>
        \o Pad(NatToChars(dt.M), 2) \o <<":">> \o Pad(NatToChars(dt.S), 2)

DateFormats ==
    << <<"%Y", "-", "%m", "-", "%d">>, <<"%Y", "/", "%m", "/", "%d">>,
       <<"%Y", "%m", "%d">>, <<"%d", "-", "%m", "-", "%Y">>,
       <<"%d", "/", "%m", "/", "%Y">> >>
DatetimeFormats ==
    << <<"%Y", "-", "%m", "-", "%d", " ", "%H", ":", "%M", ":", "%S">>,
       <<"%Y", "/", "%m", "/", "%d", " ", "%H", ":", "%M", ":", "%S">> >>

\* the for loop over the formats: the first that parses wins
RECURSIVE FirstFormat(_, _)
FirstFormat(s, fmts) ==
    IF fmts = <<>> THEN Raise("ValueError")
    ELSE IF Strptime(s, Head(fmts)).t = "ok" THEN Strptime(s, Head(fmts))
    ELSE FirstFormat(s, Tail(fmts))

UtcOffset == <<"+", "0", "0", ":", "0", "0">>

\* the text of the first parse that did not raise, else None
FirstParsed(byFormat, byIso, format(_)) ==
    IF byFormat.t = "ok" THEN Str(format(byFormat.v))
    ELSE IF byIso.t = "ok" THEN Str(format(byIso.v))
    ELSE None

\* to_date, with s = str(x).strip()
DateOfText(s) ==
    FirstParsed(FirstFormat(s, DateFormats),
                FromIsoformat(Replace(s, "Z", UtcOffset)), FormatDate)

to_date(x) == IF ~Truthy(x) THEN None ELSE DateOfText(Strip(PyStr(x)))

\* to_datetime, with s = str(x).strip()
DatetimeOfText(s) ==
    FirstParsed(FirstFormat(s, DatetimeFormats),
                FromIsoformat(Replace(s, "Z", UtcOffset)), FormatDatetime)

to_datetime(x) == IF ~Truthy(x) THEN None ELSE DatetimeOfText(Strip(PyStr(x)))

----------------------------------------------------------------------------
(* extract_list, map_row *)

\* the keys with result tried before dataList
ListKeysResultFirst == <<"result", "dataList", "data">>

ListKeys == <<"dataList", "result", "data">>

RECURSIVE FirstListUnder(_, _)
FirstListUnder(payload, keys) ==
    IF keys = <<>> THEN List(<<>>)
    ELSE IF Get(payload, Head(keys)).t = "list" THEN Get(payload, Head(keys))
    ELSE FirstListUnder(payload, Tail(keys))

extract_list(payload) ==
    IF payload.t = "list" THEN payload
    ELSE IF payload.t = "dict" THEN FirstListUnder(payload, ListKeys)
    ELSE List(<<>>)

DeviceNoMaxLen == 64

\* x[:n]: defined on text and lists, TypeError on any other value
Slice(x, n) ==
    CASE x.t = "str" -> Ok(Str(SubSeq(x.s, 1, IF Len(x.s) < n THEN Len(x.s) ELSE n)))
      [] x.t = "list" -> Ok(List(SubSeq(x.l, 1, IF Len(x.l) < n THEN Len(x.l) ELSE n)))
      [] OTHER -> Raise("TypeError")

\* r.get("deviceNo") or r.get("DEVICE_NO")
DeviceOf(r) == PyOr(Get(r, "deviceNo"), Get(r, "DEVICE_NO"))

\* the target date whatever the record says
DateOfTargetOnly(r, date_str) == date_str

\* DATE_STR of a mapped record: the record's own date, else the target date
DateOf(r, date_str) == PyOr(to_date(Get(r, "dateStr")), date_str)

\* the dictionary map_row builds once DEVICE_NO is sliced
RowOf(r, date_str, dev) ==
    IF dev.t = "raise" THEN dev
    ELSE Ok([DEVICE_NO |-> dev.v,
             PROJECT_NAME |-> Get(r, "projectName"),
             MECHANICAL_NO |-> Get(r, "mechanicalNo"),
             DATE_STR |-> DateOf(r, date_str),
             RENT_TYPE |-> IF Get(r, "rentType") # None
                           THEN Str(PyStr(Get(r, "rentType"))) ELSE None,
             TYPE_NAME |-> Get(r, "typeName"),
             CAR_TYPE |-> PyOr(Get(r, "carType"), Get(r, "catType")),
             VALID_DURATION |-> to_decimal(Get(r, "validDuration")),
             IDLING_DURATION |-> to_decimal(Get(r, "idlingDuration")),
             VALID_PERCENT |-> to_decimal(Get(r, "validPercent")),
             DAY_OIL |-> to_decimal(Get(r, "dayOil")),
             DAY_REFUEL |-> to_decimal(Get(r, "dayRefuel")),
             DAY_MILEAGE |-> to_decimal(Get(r, "dayMileage")),
             WORKHOUR_AVG_OIL |-> to_decimal(Get(r, "workhourAvgOil")),
             TRANSPORT_AVG_OIL |-> to_decimal(Get(r, "transportAvgOil")),
             COMPANY_ASSETS |-> Get(r, "companyAssets"),
             BELONG_LAND |-> Get(r, "belongLand"),
             CREATE_TIME |-> to_datetime(Get(r, "createTime")),
             SCORE |-> to_int(Get(r, "score")),
             SUMMARY |-> Get(r, "summary")])

map_row(r, date_str) == RowOf(r, date_str, Slice(PyOr(DeviceOf(r), Str(<<>>)), DeviceNoMaxLen))

----------------------------------------------------------------------------
(* target_date_str *)

JakartaUtcOffsetHours == 7

NextDay(dt) ==
    IF dt.d < DaysInMonth(dt.Y, dt.m) THEN [dt EXCEPT !.d = dt.d + 1]
    ELSE IF dt.m < 12 THEN [dt EXCEPT !.m = dt.m + 1, !.d = 1]
    ELSE [dt EXCEPT !.Y = dt.Y + 1, !.m = 1, !.d = 1]

\* dt - timedelta(days=1)
PrevDay(dt) ==
    IF dt.d > 1 THEN [dt EXCEPT !.d = dt.d - 1]
    ELSE IF dt.m > 1 THEN [dt EXCEPT !.m = dt.m - 1, !.d = DaysInMonth(dt.Y, dt.m - 1)]
    ELSE [dt EXCEPT !.Y = dt.Y - 1, !.m = 12, !.d = 31]

\* datetime.now(ZoneInfo("Asia/Jakarta")) for the UTC instant now
JakartaNow(now) ==
    IF now.H + JakartaUtcOffsetHours >= 24
    THEN [NextDay(now) EXCEPT !.H = now.H + JakartaUtcOffsetHours - 24]
    ELSE [now EXCEPT !.H = now.H + JakartaUtcOffsetHours]

\* args is sys.argv[1:], now the UTC instant of the call
target_date_str(args, now) ==
    IF Len(args) >= 1 /\ Strip(args[1]) # <<>>
    THEN Str(Strip(args[1]))
    ELSE Str(FormatDate(PrevDay(JakartaNow(now))))

----------------------------------------------------------------------------
(* The table `xingxiu`, UPSERT_SQL, transactions *)

\* the columns of UK_DEVICE_DATE
KeyOf(row) == <<row.DEVICE_NO, row.DATE_STR>>

RowsWithKey(tbl, k) == [row \in {r \in BagToSet(tbl) : KeyOf(r) = k} |-> tbl[row]]

\* an update that keeps the stored value where the incoming one is NULL
OnDuplicateKeepPresent(old, rec) ==
    [c \in DOMAIN old |->
        IF c \in {"DEVICE_NO", "DATE_STR"} \/ rec[c] = None THEN old[c] ELSE rec[c]]

\* ON DUPLICATE KEY UPDATE col = VALUES(col), for the eighteen columns it lists
OnDuplicateKeyUpdate(old, rec) ==
    [old EXCEPT !.PROJECT_NAME = rec.PROJECT_NAME,
                !.MECHANICAL_NO = rec.MECHANICAL_NO,
                !.RENT_TYPE = rec.RENT_TYPE,
                !.TYPE_NAME = rec.TYPE_NAME,
                !.CAR_TYPE = rec.CAR_TYPE,
                !.VALID_DURATION = rec.VALID_DURATION,
                !.IDLING_DURATION = rec.IDLING_DURATION,
                !.VALID_PERCENT = rec.VALID_PERCENT,
                !.DAY_OIL = rec.DAY_OIL,
                !.DAY_REFUEL = rec.DAY_REFUEL,
                !.DAY_MILEAGE = rec.DAY_MILEAGE,
                !.WORKHOUR_AVG_OIL = rec.WORKHOUR_AVG_OIL,
                !.TRANSPORT_AVG_OIL = rec.TRANSPORT_AVG_OIL,
                !.COMPANY_ASSETS = rec.COMPANY_ASSETS,
                !.BELONG_LAND = rec.BELONG_LAND,
                !.CREATE_TIME = rec.CREATE_TIME,
                !.SCORE = rec.SCORE,
                !.SUMMARY = rec.SUMMARY]

\* an index that takes two rows to conflict only when every column agrees
ConflictsWholeRow(tbl, rec) == {row \in BagToSet(tbl) : row = rec}

\* the rows the unique index UK_DEVICE_DATE finds in conflict with rec
Conflicts(tbl, rec) == {row \in BagToSet(tbl) : KeyOf(row) = KeyOf(rec)}

\* a plain INSERT with no unique index to stop it
InsertOnly(tbl, rec) == tbl (+) SetToBag({rec})

\* One row of the INSERT ... ON DUPLICATE KEY UPDATE statement.  The surrogate
\* ID column is left out: no statement of the program reads it.
UPSERT_SQL(tbl, rec) ==
    IF Conflicts(tbl, rec) = {} THEN tbl (+) SetToBag({rec})
    ELSE LET old == CHOOSE row \in Conflicts(tbl, rec) : TRUE
         IN  (tbl (-) SetToBag({old})) (+) SetToBag({OnDuplicateKeyUpdate(old, rec)})

\* cur.executemany(UPSERT_SQL, rows) followed by a successful commit
RECURSIVE executemany(_, _)
executemany(tbl, rows) ==
    IF rows = <<>> THEN tbl ELSE executemany(UPSERT_SQL(tbl, Head(rows)), Tail(rows))

NoUndo == [k \in {} |-> EmptyBag]

\* the undo log after the transaction touches key k: the first image is kept
Logged(log, tbl, k) == IF k \in DOMAIN log THEN log ELSE log @@ (k :> RowsWithKey(tbl, k))

\* a rollback with nothing to take back, as under autocommit
RollbackNothing(tbl, log) == tbl

\* conn.rollback() under autocommit = False: every key the transaction
\* touched gets back the rows it had before
Rollback(tbl, log) ==
    [row \in {r \in BagToSet(tbl) : KeyOf(r) \notin DOMAIN log} |-> tbl[row]]
        (+) BagUnion({log[k] : k \in DOMAIN log})

\* no row locks
LockFreeAlways(p, k) == TRUE

\* InnoDB row locks: a key is writable unless another transaction holds it
LockFree(p, k) == \A q \in DOMAIN held : q # p => k \notin held[q]

----------------------------------------------------------------------------
(* fetch_api and main *)

\* lines 191-194 of fetch_api: rows is extract_list(data)
RowsOr(data, rows) == IF ~Truthy(rows) /\ data.t = "list" THEN data ELSE rows

\* rows of fetch_api for the decoded response body data
fetch_api(data) == RowsOr(data, extract_list(data))

\* no filter on the device identifier
HasDeviceAlways(r) == TRUE

\* the filter of main: the record has a usable device identifier
HasDevice(r) == Truthy(DeviceOf(r))

\* the filter of main on the mapped records
HasDate(m) == Truthy(m.DATE_STR)

\* [map_row(r, date_str) for r in usable], each Ok or Raise
MapEach(usable, date_str) == [i \in 1..Len(usable) |-> map_row(usable[i], date_str)]

\* line 252 of main
MapAll(rawList, date_str) == MapEach(SelectSeq(rawList, HasDevice), date_str)

AnyRaises(rows) == \E i \in 1..Len(rows) : rows[i].t = "raise"

\* line 253 of main
Dated(rows) == SelectSeq([i \in 1..Len(rows) |-> rows[i].v], HasDate)

----------------------------------------------------------------------------
(* Inputs *)

MaxRuns == 2
MaxBatch == 2

Procs == {1, 2}
SeqProcs == {1}

Pending == [t |-> "pending"]
Absent == [t |-> "absent"]

\* a mapping with the given key unless the value is Absent
Opt(key, v) == IF v = Absent THEN NoFields ELSE (key :> v)

Txt0921 == <<"2", "0", "2", "5", "-", "0", "9", "-", "2", "1">>
Txt0920 == <<"2", "0", "2", "5", "-", "0", "9", "-", "2", "0">>
TxtD1 == <<"D", "1">>
TxtD2 == <<"D", "2">>

\* raw records the endpoint returns in the runs
RecA == Dict(("deviceNo" :> Str(TxtD1)) @@ ("validDuration" :> Str(<<"1", ".", "5", "0">>))
             @@ ("summary" :> Str(<<"o", "k">>)))
RecB == Dict(("deviceNo" :> Str(TxtD1)) @@ ("dateStr" :> Str(<<"2", "0", "2", "5", "-", "0", "9", "-", "3", "1">>))
             @@ ("summary" :> None))
RecC == Dict(("DEVICE_NO" :> Str(TxtD2)) @@ ("dateStr" :> Str(<<"2", "0", "2", "5", "/", "0", "9", "/", "2", "0">>))
             @@ ("score" :> Str(<<"7">>)))
RecD == Dict("projectName" :> Str(<<"P">>))
RecE == Dict("deviceNo" :> PyInt(12345))
RecF == Dict(("deviceNo" :> Str(<<>>)) @@ ("DEVICE_NO" :> Str(TxtD2))
             @@ ("dateStr" :> Str(<<"2", "0", "2", "5", "0", "9", "2", "0">>)) @@ ("score" :> PyInt(8)))

RunRecords == {RecA, RecB, RecC, RecD, RecE}

RECURSIVE SeqsUpTo(_, _)
SeqsUpTo(S, n) ==
    IF n = 0 THEN {<<>>}
    ELSE SeqsUpTo(S, n - 1) \cup {Append(l, e) : l \in {x \in SeqsUpTo(S, n - 1) : Len(x) = n - 1}, e \in S}

RunLists == SeqsUpTo(RunRecords, MaxBatch)

\* decoded response bodies: the list itself, the list in an envelope, no list
RunPayloads ==
    {List(l) : l \in RunLists}
        \cup {Dict(("code" :> PyInt(0)) @@ ("dataList" :> List(l))) : l \in RunLists}
        \cup {Dict("msg" :> Str(<<"n", "o">>))}

ConcPayloads ==
    {List(l) : l \in {<<>>, <<RecE>>, <<RecB>>, <<RecA, RecC>>, <<RecF, RecB>>, <<RecC, RecA>>}}

\* UTC instants at which a run starts
Clocks == {[Y |-> 2025, m |-> 9, d |-> 21, H |-> 16, M |-> 0, S |-> 0],
           [Y |-> 2025, m |-> 9, d |-> 21, H |-> 17, M |-> 30, S |-> 0]}

RunArgv == {<<>>, <<Txt0921>>, << <<" ">> \o Txt0920 \o <<" ">>, Txt0921>>}
ConcArgv == {<<Txt0921>>}

----------------------------------------------------------------------------
(* The runs *)

Finished(p) == pc[p] \in {"idle", "Done", "exited"}

\* the interpreter starts: module level code up to line 54
StartRun(p, limit, argvs) ==
    /\ Finished(p)
    /\ runs[p] < limit
    /\ \E a \in argvs, now \in Clocks :
          /\ argv' = [argv EXCEPT ![p] = a]
          /\ DATE_STR' = [DATE_STR EXCEPT ![p] = target_date_str(a, now)]
    /\ runs' = [runs EXCEPT ![p] = @ + 1]
    /\ pc' = [pc EXCEPT ![p] = "fetch"]
    /\ fetched' = [fetched EXCEPT ![p] = <<>>]
    /\ raw' = [raw EXCEPT ![p] = Pending]
    /\ mapped' = [mapped EXCEPT ![p] = <<>>]
    /\ idx' = [idx EXCEPT ![p] = 0]
    /\ conns' = [conns EXCEPT ![p] = 0]
    /\ exitCode' = [exitCode EXCEPT ![p] = 0]
    /\ tableAtStart' = [tableAtStart EXCEPT ![p] = table]
    /\ UNCHANGED <<held, undo, table, created, call, ret>>

Start(p) == StartRun(p, MaxRuns, RunArgv)
StartOnce(p) == StartRun(p, 1, ConcArgv)

\* an exception nothing catches ends the process with status 1
Crash(p) ==
    /\ pc' = [pc EXCEPT ![p] = "exited"]
    /\ exitCode' = [exitCode EXCEPT ![p] = 1]

\* fetch_api(DATE_STR) returns the rows of a response
FetchFrom(p, payloads) ==
    /\ pc[p] = "fetch"
    /\ fetched' = [fetched EXCEPT ![p] = Append(@, DATE_STR[p])]
    /\ \E data \in payloads : raw' = [raw EXCEPT ![p] = fetch_api(data)]
    /\ pc' = [pc EXCEPT ![p] = "map"]
    /\ UNCHANGED <<argv, DATE_STR, mapped, idx, conns, exitCode, runs, tableAtStart,
                   held, undo, table, created, call, ret>>

Fetch(p) == FetchFrom(p, RunPayloads)
FetchConc(p) == FetchFrom(p, ConcPayloads)

\* requests.post, raise_for_status or r.json() raises
FetchFails(p) ==
    /\ pc[p] = "fetch"
    /\ fetched' = [fetched EXCEPT ![p] = Append(@, DATE_STR[p])]
    /\ Crash(p)
    /\ UNCHANGED <<argv, DATE_STR, raw, mapped, idx, conns, runs, tableAtStart,
                   held, undo, table, created, call, ret>>

\* main, lines 252-254, with rows the outcomes of map_row
MapDone(p, rows) ==
    /\ ~AnyRaises(rows)
    /\ mapped' = [mapped EXCEPT ![p] = Dated(rows)]
    /\ pc' = [pc EXCEPT ![p] = "upsert"]
    /\ exitCode' = exitCode

\* main, line 252: map_row raises on some record
MapRaised(p, rows) ==
    /\ AnyRaises(rows)
    /\ Crash(p)
    /\ mapped' = mapped

MapRows(p) ==
    /\ pc[p] = "map"
    /\ MapDone(p, MapAll(raw[p].l, DATE_STR[p]))
    /\ UNCHANGED <<argv, DATE_STR, fetched, raw, idx, conns, runs,
                   tableAtStart, held, undo, table, created, call, ret>>

MapRaises(p) ==
    /\ pc[p] = "map"
    /\ MapRaised(p, MapAll(raw[p].l, DATE_STR[p]))
    /\ UNCHANGED <<argv, DATE_STR, fetched, raw, idx, conns, runs,
                   tableAtStart, held, undo, table, created, call, ret>>

\* upsert, lines 231-233, then "Done"
UpsertNoRows(p) ==
    /\ pc[p] = "upsert"
    /\ mapped[p] = <<>>
    /\ pc' = [pc EXCEPT ![p] = "Done"]
    /\ UNCHANGED <<argv, DATE_STR, fetched, raw, mapped, idx, conns, exitCode, runs,
                   tableAtStart, held, undo, table, created, call, ret>>

\* upsert, lines 234-235
GetConn(p) ==
    /\ pc[p] = "upsert"
    /\ mapped[p] # <<>>
    /\ conns' = [conns EXCEPT ![p] = @ + 1]
    /\ pc' = [pc EXCEPT ![p] = "ensure"]
    /\ UNCHANGED <<argv, DATE_STR, fetched, raw, mapped, idx, exitCode, runs,
                   tableAtStart, held, undo, table, created, call, ret>>

\* mysql.connector.connect raises, outside the try block
GetConnFails(p) ==
    /\ pc[p] = "upsert"
    /\ mapped[p] # <<>>
    /\ Crash(p)
    /\ UNCHANGED <<argv, DATE_STR, fetched, raw, mapped, idx, conns, runs,
                   tableAtStart, held, undo, table, created, call, ret>>

\* ensure_table(cur)
EnsureTable(p) ==
    /\ pc[p] = "ensure"
    /\ created' = TRUE
    /\ pc' = [pc EXCEPT ![p] = "exec"]
    /\ UNCHANGED <<argv, DATE_STR, fetched, raw, mapped, idx, conns, exitCode, runs,
                   tableAtStart, held, undo, table, call, ret>>

\* executemany applies the next row of the batch inside the transaction
ExecRow(p) ==
    /\ pc[p] = "exec"
    /\ idx[p] < Len(mapped[p])
    /\ LET rec == mapped[p][idx[p] + 1]
       IN  /\ LockFree(p, KeyOf(rec))
           /\ held' = [held EXCEPT ![p] = @ \cup {KeyOf(rec)}]
           /\ undo' = [undo EXCEPT ![p] = Logged(@, table, KeyOf(rec))]
           /\ table' = UPSERT_SQL(table, rec)
    /\ idx' = [idx EXCEPT ![p] = @ + 1]
    /\ UNCHANGED <<pc, argv, DATE_STR, fetched, raw, mapped, conns, exitCode, runs,
                   tableAtStart, created, call, ret>>

\* conn.commit(), the finally block, then "Done"
Commit(p) ==
    /\ pc[p] = "exec"
    /\ idx[p] = Len(mapped[p])
    /\ held' = [held EXCEPT ![p] = {}]
    /\ undo' = [undo EXCEPT ![p] = NoUndo]
    /\ pc' = [pc EXCEPT ![p] = "Done"]
    /\ UNCHANGED <<argv, DATE_STR, fetched, raw, mapped, idx, conns, exitCode, runs,
                   tableAtStart, table, created, call, ret>>

\* mysql.connector.Error in the try block: rollback, sys.exit(1)
DbError(p) ==
    /\ pc[p] \in {"ensure", "exec"}
    /\ table' = Rollback(table, undo[p])
    /\ held' = [held EXCEPT ![p] = {}]
    /\ undo' = [undo EXCEPT ![p] = NoUndo]
    /\ Crash(p)
    /\ UNCHANGED <<argv, DATE_STR, fetched, raw, mapped, idx, conns, runs,
                   tableAtStart, created, call, ret>>

NoCall == [fn |-> "none"]

Init ==
    /\ call = NoCall
    /\ ret = Pending
    /\ pc = [p \in Procs |-> "idle"]
    /\ argv = [p \in Procs |-> <<>>]
    /\ DATE_STR = [p \in Procs |-> None]
    /\ fetched = [p \in Procs |-> <<>>]
    /\ raw = [p \in Procs |-> Pending]
    /\ mapped = [p \in Procs |-> <<>>]
    /\ idx = [p \in Procs |-> 0]
    /\ conns = [p \in Procs |-> 0]
    /\ exitCode = [p \in Procs |-> 0]
    /\ runs = [p \in Procs |-> 0]
    /\ tableAtStart = [p \in Procs |-> EmptyBag]
    /\ held = [p \in Procs |-> {}]
    /\ undo = [p \in Procs |-> NoUndo]
    /\ table = EmptyBag
    /\ created = FALSE

\* runs of the program one after another
Next ==
    \E p \in SeqProcs :
        \/ Start(p) \/ Fetch(p) \/ FetchFails(p) \/ MapRows(p) \/ MapRaises(p)
        \/ UpsertNoRows(p) \/ GetConn(p) \/ GetConnFails(p) \/ EnsureTable(p)
        \/ ExecRow(p) \/ Commit(p) \/ DbError(p)

Spec == Init /\ [][Next]_vars

\* two runs of the program that overlap
NextConc ==
    \E p \in Procs :
        \/ StartOnce(p) \/ FetchConc(p) \/ FetchFails(p) \/ MapRows(p) \/ MapRaises(p)
        \/ UpsertNoRows(p) \/ GetConn(p) \/ GetConnFails(p) \/ EnsureTable(p)
        \/ ExecRow(p) \/ Commit(p) \/ DbError(p)

SpecConc == Init /\ [][NextConc]_vars

----------------------------------------------------------------------------
(* The functions applied on their own *)

ScalarInputs ==
    {
     None, Bool(TRUE), Bool(FALSE), PyInt(0), PyInt(15), PyInt(-4), PyInt(20250921),
     Float(15, 1), Float(-225, 2), Str(<<>>), Str(<<" ">>),
     Str(<<"n", "u", "l", "l">>), Str(<<"N", "U", "L", "L">>),
     Str(<<"N", "o", "n", "e">>), Str(<<"1", ",", "2", "3", "4", ".", "5", "6">>),
     Str(<<"1", ".", "2", "3", "4", ",", "5", "6">>),
     Str(<<" ", "1", "2", ".", "5", "0", " ">>), Str(<<"-", "3", ".", "5">>),
     Str(<<".", "5">>), Str(<<".">>), Str(<<"a", "b", "c">>), Str(<<"n", "a", "n">>),
     Str(<<"i", "n", "f">>), Str(<<"7", ".", "9">>),
     Str(<<"2", "0", "2", "5", "-", "0", "9", "-", "2", "1">>),
     Str(<<"2", "0", "2", "5", "/", "0", "9", "/", "2", "0">>),
     Str(<<"2", "0", "2", "5", "0", "9", "2", "1">>),
     Str(<<"2", "1", "-", "0", "9", "-", "2", "0", "2", "5">>),
     Str(<<"2", "1", "/", "0", "9", "/", "2", "0", "2", "5">>),
     Str(<<"2", "0", "2", "5", "-", "9", "-", "1">>),
     Str(<<"2", "0", "2", "4", "-", "0", "2", "-", "2", "9">>),
     Str(<<"2", "0", "2", "5", "-", "0", "2", "-", "2", "9">>),
     Str(<<"2", "0", "2", "5", "-", "0", "9", "-", "3", "1">>),
     Str(<<"0", "0", "0", "0", "-", "0", "1", "-", "0", "1">>),
     Str(<<"2", "0", "2", "5", "-", "0", "9", "-", "2", "1", "T", "1", "0", ":", "0", "0", ":", "0", "0", "Z">>),
     Str(<<"2", "0", "2", "5", "-", "0", "9", "-", "2", "1", " ", "1", "0", ":", "0", "0", ":", "0", "0">>),
     Str(<<"2", "0", "2", "5", "/", "0", "9", "/", "2", "1", " ", "1", ":", "2", ":", "3">>),
     Str(<<"2", "0", "2", "5", "-", "0", "9", "-", "2", "1", " ", "1", "0", ":", "0", "0", ":", "6", "0">>),
     Str(<<"2", "0", "2", "5", "-", "0", "9", "-", "2", "1", "T", "1", "0", ":", "0", "0">>),
     Str(<<"2", "0", "2", "5", "-", "0", "9", "-", "2", "1", "T">>),
     Str(<<"n", "/", "a">>)
    }

CoerceCalls ==
    {[fn |-> f, x |-> v] : f \in {"to_decimal", "to_int", "to_date", "to_datetime"},
                           v \in ScalarInputs}

ListA == List(<<RecA>>)
ListB == List(<<RecB, RecC>>)
ListC == List(<<RecD>>)

\* what a response may hold under one of the keys
UnderKey(l) == {Absent, l, List(<<>>), None, Str(<<"x">>)}

ExtractPayloads ==
    {Dict(Opt("dataList", a) @@ Opt("result", b) @@ Opt("data", c) @@ ("code" :> PyInt(0))) :
        a \in UnderKey(ListA), b \in UnderKey(ListB), c \in UnderKey(ListC)}
    \cup {ListA, List(<<>>), None, Str(<<"x">>), PyInt(0)}

ExtractCalls == {[fn |-> "extract_list", x |-> data] : data \in ExtractPayloads}

MapRecords ==
    {Dict(Opt("deviceNo", a) @@ Opt("DEVICE_NO", b) @@ Opt("dateStr", c)
          @@ Opt("validDuration", d) @@ Opt("score", e)) :
        a \in {Absent, None, Str(<<>>), Str(TxtD1), PyInt(12345), PyInt(0), Bool(TRUE)},
        b \in {Absent, Str(TxtD2)},
        c \in {Absent, Str(<<>>), Str(<<"2", "0", "2", "5", "/", "0", "9", "/", "2", "0">>),
               Str(<<"2", "0", "2", "5", "-", "0", "9", "-", "3", "1">>),
               Str(<<"n", "/", "a">>), PyInt(20250920),
               Str(<<"2", "0", "2", "5", "-", "0", "9", "-", "2", "0", "T", "2", "3", ":", "3", "0", ":", "0", "0", "Z">>)},
        d \in {Absent, Str(<<"1", ",", "2", "3", "4", ".", "5", "6">>), Str(<<"a", "b", "c">>)},
        e \in {Absent, Str(<<"7", ".", "9">>), Str(<<"x">>)}}

MapCalls == {[fn |-> "map_row", r |-> r, date_str |-> Str(Txt0921)] : r \in MapRecords}

InitPure ==
    /\ call \in CoerceCalls \cup ExtractCalls \cup MapCalls
    /\ ret = Pending
    /\ pc = [p \in Procs |-> "idle"]
    /\ argv = [p \in Procs |-> <<>>]
    /\ DATE_STR = [p \in Procs |-> None]
    /\ fetched = [p \in Procs |-> <<>>]
    /\ raw = [p \in Procs |-> Pending]
    /\ mapped = [p \in Procs |-> <<>>]
    /\ idx = [p \in Procs |-> 0]
    /\ conns = [p \in Procs |-> 0]
    /\ exitCode = [p \in Procs |-> 0]
    /\ runs = [p \in Procs |-> 0]
    /\ tableAtStart = [p \in Procs |-> EmptyBag]
    /\ held = [p \in Procs |-> {}]
    /\ undo = [p \in Procs |-> NoUndo]
    /\ table = EmptyBag
    /\ created = FALSE

\* the call returns result
Returns(fn, result) ==
    /\ call.fn = fn
    /\ ret = Pending
    /\ ret' = result
    /\ UNCHANGED <<call, procVars, dbVars>>

CallToDecimal == Returns("to_decimal", Ok(to_decimal(call.x)))
CallToInt == Returns("to_int", Ok(to_int(call.x)))
CallToDate == Returns("to_date", Ok(to_date(call.x)))
CallToDatetime == Returns("to_datetime", Ok(to_datetime(call.x)))
CallExtractList == Returns("extract_list", Ok(extract_list(call.x)))
CallMapRow == Returns("map_row", map_row(call.r, call.date_str))

NextPure ==
    \/ CallToDecimal \/ CallToInt \/ CallToDate \/ CallToDatetime
    \/ CallExtractList \/ CallMapRow

SpecPure == InitPure /\ [][NextPure]_vars

----------------------------------------------------------------------------
(* Properties *)

NonKeyColumns ==
    {"PROJECT_NAME", "MECHANICAL_NO", "RENT_TYPE", "TYPE_NAME", "CAR_TYPE",
     "VALID_DURATION", "IDLING_DURATION", "VALID_PERCENT", "DAY_OIL", "DAY_REFUEL",
     "DAY_MILEAGE", "WORKHOUR_AVG_OIL", "TRANSPORT_AVG_OIL", "COMPANY_ASSETS",
     "BELONG_LAND", "CREATE_TIME", "SCORE", "SUMMARY"}

NonKey(row) == [c \in NonKeyColumns |-> row[c]]

RowsOfKey(tbl, k) == {row \in BagToSet(tbl) : KeyOf(row) = k}

\* the run of p went through upsert's commit
Committed(p) == pc[p] = "Done" /\ conns[p] > 0

\* C1: once a run has committed its batch, upserting the same batch again
\* (commit succeeding) leaves the table as it is: the same rows, each the same
\* number of times, with the same value in every column.
C1_UpsertIdempotent ==
    \A p \in SeqProcs : Committed(p) => executemany(table, mapped[p]) = table

\* a committed batch that inserted or updated rows of a table that had rows
C1_Witness ==
    \E p \in SeqProcs :
        /\ Committed(p)
        /\ tableAtStart[p] # EmptyBag
        /\ table # tableAtStart[p]
        /\ \E i \in 1..Len(mapped[p]) : RowsOfKey(tableAtStart[p], KeyOf(mapped[p][i])) # {}

\* C2: in every state of the table, committed or inside a transaction, at
\* most one row has a given DEVICE_NO and DATE_STR.
C2_KeyUnique ==
    \A row \in BagToSet(table) :
        /\ CopiesIn(row, table) = 1
        /\ \A other \in BagToSet(table) : KeyOf(other) = KeyOf(row) => other = row

\* a second run has committed a batch that holds one key twice, with
\* different values, over a table that already had the key
C2_Witness ==
    \E p \in SeqProcs :
        /\ Committed(p)
        /\ runs[p] >= 2
        /\ \E i, j \in 1..Len(mapped[p]) :
              /\ i < j
              /\ KeyOf(mapped[p][i]) = KeyOf(mapped[p][j])
              /\ mapped[p][i] # mapped[p][j]
              /\ RowsOfKey(tableAtStart[p], KeyOf(mapped[p][i])) # {}

\* C3: a run that ends on a database error inside upsert's try block leaves
\* the rows of the table exactly as they were before the batch, holds no lock,
\* and exits with status 1; and a finished run has applied its batch in full or
\* not at all.
C3_BatchAtomic ==
    \A p \in SeqProcs :
        /\ (pc[p] = "exited" /\ conns[p] > 0) =>
              (table = tableAtStart[p] /\ exitCode[p] = 1 /\ held[p] = {})
        /\ pc[p] \in {"Done", "exited"} =>
              table \in {tableAtStart[p], executemany(tableAtStart[p], mapped[p])}

\* the error came after rows of the batch had changed the table
C3_Witness ==
    \E p \in SeqProcs :
        /\ pc[p] = "exited" /\ conns[p] > 0
        /\ idx[p] >= 1 /\ idx[p] < Len(mapped[p])
        /\ tableAtStart[p] # EmptyBag
        /\ executemany(tableAtStart[p], SubSeq(mapped[p], 1, idx[p])) # tableAtStart[p]

\* the step applies the next record of p's batch
AppliesRecord(p) == pc[p] = "exec" /\ idx'[p] = idx[p] + 1

\* C4: when a row of the batch meets an existing row with its key, then after
\* the row is applied the table holds one row with that key, whose every
\* non-key column has the incoming value (NULL included); the rows with other
\* keys are as before and so is the number of rows.
C4_LastWriteWins ==
    [][\A p \in SeqProcs :
          (AppliesRecord(p) /\ RowsOfKey(table, KeyOf(mapped[p][idx[p] + 1])) # {}) =>
             LET rec == mapped[p][idx[p] + 1]
             IN  /\ \A row \in RowsOfKey(table', KeyOf(rec)) : NonKey(row) = NonKey(rec)
                 /\ Cardinality(RowsOfKey(table', KeyOf(rec))) = 1
                 /\ \A row \in BagToSet(table) \cup BagToSet(table') :
                       KeyOf(row) # KeyOf(rec) =>
                          CopiesIn(row, table') = CopiesIn(row, table)
                 /\ BagCardinality(table') = BagCardinality(table)]_vars

\* a record with no SUMMARY and no VALID_DURATION has been applied over a row
\* that had both, and the row now has neither
C4_Witness ==
    \E p \in SeqProcs :
        /\ pc[p] = "exec" /\ idx[p] >= 1
        /\ LET rec == mapped[p][idx[p]]
           IN  /\ rec.SUMMARY = None /\ rec.VALID_DURATION = None
               /\ \E old \in RowsOfKey(tableAtStart[p], KeyOf(rec)) :
                     old.SUMMARY # None /\ old.VALID_DURATION # None
               /\ \E row \in RowsOfKey(table, KeyOf(rec)) :
                     row.SUMMARY = None /\ row.VALID_DURATION = None

\* the batch of p if p has committed it, else no batch
CommittedBatch(p) == IF Committed(p) THEN mapped[p] ELSE <<>>

\* the table with the changes of the open transactions taken back
CommittedView == Rollback(Rollback(table, undo[1]), undo[2])

\* C5: with two runs overlapping, in every state the committed rows are those
\* of the committed batches applied one after the other in some order, no key
\* has two rows, and every row is, whole, a record of one run.
C5_Serializable ==
    /\ CommittedView \in
          {executemany(executemany(EmptyBag, CommittedBatch(1)), CommittedBatch(2)),
           executemany(executemany(EmptyBag, CommittedBatch(2)), CommittedBatch(1))}
    /\ \A row \in BagToSet(CommittedView) :
          /\ Cardinality(RowsOfKey(CommittedView, KeyOf(row))) = 1
          /\ \E p \in Procs : \E i \in 1..Len(CommittedBatch(p)) :
                CommittedBatch(p)[i] = row

\* both transactions are open at once; each has applied its first row and
\* holds its lock, and the next row of each has the key the other holds
C5_Witness ==
    /\ pc[1] = "exec" /\ pc[2] = "exec"
    /\ idx[1] = 1 /\ idx[2] = 1
    /\ Len(mapped[1]) = 2 /\ Len(mapped[2]) = 2
    /\ KeyOf(mapped[1][2]) \in held[2]
    /\ KeyOf(mapped[2][2]) \in held[1]
    /\ mapped[1][1] # mapped[2][2]

\* both deviceNo and DEVICE_NO are absent or empty
NoDeviceId(r) ==
    \A k \in {"deviceNo", "DEVICE_NO"} : k \notin DOMAIN r.d \/ r.d[k] \in {None, Str(<<>>)}

\* C6: once the API has returned a list in which no record has a usable
\* device identifier (the empty list included), the run opens no connection,
\* the table stays as it was when the run started, and the run has not failed:
\* it is mapping, entering upsert, or Done with status 0.
C6_NoConnWithoutRows ==
    \A p \in SeqProcs :
        (raw[p] # Pending /\ \A i \in 1..Len(raw[p].l) : NoDeviceId(raw[p].l[i])) =>
            /\ conns[p] = 0
            /\ table = tableAtStart[p]
            /\ pc[p] \in {"map", "upsert", "Done"}
            /\ exitCode[p] = 0
            /\ mapped[p] = <<>>

\* a run over a table with rows is Done after the API returned only records
\* without a device identifier
C6_Witness ==
    \E p \in SeqProcs :
        /\ pc[p] = "Done"
        /\ raw[p] # Pending /\ raw[p].l # <<>>
        /\ \A i \in 1..Len(raw[p].l) : NoDeviceId(raw[p].l[i])
        /\ table # EmptyBag

\* the date the claim expects for raw record r fetched for date_str
OwnOrTarget(own, date_str) == IF own = None THEN date_str ELSE own
ExpectedDate(r, date_str) == OwnOrTarget(to_date(Get(r, "dateStr")), date_str)

\* C7: the records main hands to upsert are the fetched records that have a
\* device identifier, in order, each with DATE_STR the target date when its
\* dateStr is absent, empty or not parseable and its own parsed date
\* otherwise; and a committed run has written a row with that date for each.
C7_DateFallback ==
    \A p \in SeqProcs :
        pc[p] \in {"upsert", "ensure", "exec", "Done"} =>
            LET usable == SelectSeq(raw[p].l, LAMBDA r : ~NoDeviceId(r))
            IN  /\ Len(mapped[p]) = Len(usable)
                /\ \A j \in 1..Len(usable) :
                      /\ mapped[p][j].DATE_STR = ExpectedDate(usable[j], DATE_STR[p])
                      /\ Committed(p) =>
                            \E row \in BagToSet(table) :
                               /\ row.DEVICE_NO = mapped[p][j].DEVICE_NO
                               /\ row.DATE_STR = mapped[p][j].DATE_STR

\* a run for 2025-09-21 has written the record whose dateStr is 2025-09-31
\* under 2025-09-21 and the record whose dateStr is 2025/09/20 under 2025-09-20
C7_Witness ==
    \E p \in SeqProcs :
        /\ Committed(p)
        /\ DATE_STR[p] = Str(Txt0921)
        /\ raw[p].l = <<RecB, RecC>>
        /\ \E row \in BagToSet(table) :
              row.DEVICE_NO = Str(TxtD1) /\ row.DATE_STR = Str(Txt0921)
        /\ \E row \in BagToSet(table) :
              row.DEVICE_NO = Str(TxtD2) /\ row.DATE_STR = Str(Txt0920)
        /\ mapped[p][1].DATE_STR = Str(Txt0921)
        /\ mapped[p][2].DATE_STR = Str(Txt0920)

IsListAt(data, key) == key \in DOMAIN data.d /\ data.d[key].t = "list"

\* C8, as amended: extract_list raises nothing; it returns the payload itself
\* when it is a list; for a mapping, the value of the first of the keys
\* dataList, result, data whose value is a list; in every other case the
\* empty list.
C8_ExtractFirstList ==
    (call.fn = "extract_list" /\ ret # Pending) =>
        /\ ret.t = "ok"
        /\ call.x.t = "list" => ret.v = call.x
        /\ call.x.t \notin {"list", "dict"} => ret.v = List(<<>>)
        /\ call.x.t = "dict" =>
              ret.v = IF IsListAt(call.x, "dataList") THEN call.x.d["dataList"]
                      ELSE IF IsListAt(call.x, "result") THEN call.x.d["result"]
                      ELSE IF IsListAt(call.x, "data") THEN call.x.d["data"]
                      ELSE List(<<>>)

\* the response holds lists under dataList and under result, and the call
\* returned the one under dataList
C8_Witness ==
    /\ call.fn = "extract_list" /\ ret # Pending
    /\ call.x.t = "dict"
    /\ IsListAt(call.x, "dataList") /\ IsListAt(call.x, "result")
    /\ call.x.d["dataList"] # call.x.d["result"]
    /\ ret = Ok(call.x.d["dataList"])

\* the keys of ListKeys the mapping has, in priority order
PresentKeys(data) == SelectSeq(ListKeys, LAMBDA k : k \in DOMAIN data.d)

\* C8 as stated: for a mapping, the list under the first PRESENT of the keys
\* dataList, result, data, and the empty list when that yields no list.
C8_ExtractFirstPresent ==
    (call.fn = "extract_list" /\ ret # Pending) =>
        /\ ret.t = "ok"
        /\ call.x.t = "list" => ret.v = call.x
        /\ call.x.t \notin {"list", "dict"} => ret.v = List(<<>>)
        /\ call.x.t = "dict" =>
              ret.v = IF PresentKeys(call.x) # <<>>
                         /\ IsListAt(call.x, Head(PresentKeys(call.x)))
                      THEN call.x.d[Head(PresentKeys(call.x))]
                      ELSE List(<<>>)

\* the calendar days from text s to text e, as target dates
RECURSIVE DaysBetween(_, _)
DaysBetween(s, e) ==
    IF s = e THEN <<Str(FormatDate(s))>> ELSE <<Str(FormatDate(s))>> \o DaysBetween(NextDay(s), e)

YesterdayChoices == {Str(FormatDate(PrevDay(JakartaNow(now)))) : now \in Clocks}

\* C9: a run that reaches Done has fetched, with two arguments, every day from
\* the first to the second in ascending order; with one argument that date;
\* with none, Jakarta's yesterday.
C9_RangeMode ==
    \A p \in SeqProcs :
        pc[p] = "Done" =>
            /\ Len(argv[p]) = 2 =>
                  fetched[p] = DaysBetween(FromIsoformat(Strip(argv[p][1])).v,
                                           FromIsoformat(Strip(argv[p][2])).v)
            /\ Len(argv[p]) = 1 => fetched[p] = <<Str(Strip(argv[p][1]))>>
            /\ Len(argv[p]) = 0 =>
                  Len(fetched[p]) = 1 /\ fetched[p][1] \in YesterdayChoices

\* C10: map_row and the coercion functions raise on no record and no value.
C10_MappingTotal ==
    (call.fn \in {"map_row", "to_decimal", "to_int", "to_date", "to_datetime"}
        /\ ret # Pending) => ret.t = "ok"

====
